---- MODULE Spec2Model ----
(***************************************************************************)
(* A model of the hook validator (skills/create-hook/scripts/              *)
(* validate-hook.py): the report object, the event schema registry, event  *)
(* inference, installation lookup in the three settings layers, and the    *)
(* step-by-step validation of one hook script and of a whole project.      *)
(*                                                                         *)
(* Text is modelled by what the code reads of it:                          *)
(*  - a script source is the ordered list of the names that follow its     *)
(*    "Event:" markers, the set of literals the code searches it for, and  *)
(*    the kind of its first line;                                          *)
(*  - a command string is a sequence of atoms (quote characters, the       *)
(*    placeholder, whitespace, path separators and name fragments).        *)
(***************************************************************************)
EXTENDS Integers, Sequences, FiniteSets, TLC

VARIABLES
    mode,        \* which operation this behaviour exercises
    result,      \* the ValidationResult being filled
    calls,       \* the kinds of the calls made on result, in order
    src,         \* the script source given to detect_hook_event
    detected,    \* what detect_hook_event returned
    query,       \* the event name looked up in the registry
    lookup,      \* what the registry lookup returned
    cmd,         \* the command of the settings entry searched: prefix, placeholder form, rest
    cwd,         \* the working directory of the validator process
    located,     \* what find_hook_in_settings returned
    script,      \* the hook script file under validation
    event_hint,  \* the caller's event override, or None
    layers,      \* the three settings files
    pc,          \* the step validate_hook_script is at
    interp,      \* is_python / is_bash
    event,       \* the event given or inferred
    probes,      \* the payloads of the runtime-test subprocesses started
    files,       \* the files of .claude/hooks, in directory order
    level,       \* validate_project: the settings layer validated next
    hook_idx,    \* validate_project: the hook validated next
    all_passed,  \* validate_project: the running verdict
    reports,     \* the success of every report validate_project has seen, in order
    verdict,     \* what validate_project returned
    args,        \* main: the parsed command line
    exit_code    \* main: the exit statuses the process has ended with

vars == <<mode, result, calls, src, detected, query, lookup, cmd, cwd, located,
          script, event_hint, layers, pc, interp, event, probes,
          files, level, hook_idx, all_passed, reports, verdict, args, exit_code>>

resultVars == <<result, calls>>
eventVars == <<src, detected, query, lookup>>
findVars == <<cmd, cwd, located>>
inputVars == <<script, event_hint, layers>>
scriptVars == <<pc, interp, event, probes>>
projectVars == <<files, level, hook_idx, all_passed, reports, verdict>>
mainVars == <<args, exit_code>>

None == "None"
Pending == "pending"

(***************************************************************************)
(* ValidationResult                                                        *)
(***************************************************************************)
NoInstallation == [present |-> FALSE, project |-> FALSE, local |-> FALSE,
                   user |-> FALSE, events |-> <<>>, matchers |-> <<>>]

NewResult ==
    [errors |-> <<>>, warnings |-> <<>>, passed |-> <<>>,
     installation |-> NoInstallation]

AddError(r, msg) == [r EXCEPT !.errors = Append(@, msg)]

AddWarnAsError(r, msg) == [r EXCEPT !.errors = Append(@, msg)]

AddWarn(r, msg) == [r EXCEPT !.warnings = Append(@, msg)]

AddOk(r, msg) == [r EXCEPT !.passed = Append(@, msg)]

AddInfo(r, msg) == [r EXCEPT !.passed = Append(@, msg)]

Success(r) == Len(r.errors) = 0

(***************************************************************************)
(* The calls on a ValidationResult, one action per method.                 *)
(***************************************************************************)
MaxCalls == 4

Messages == {"m1", "m2"}

CallError ==
    /\ mode = "result"
    /\ Len(calls) < MaxCalls
    /\ \E msg \in Messages : result' = AddError(result, msg)
    /\ calls' = Append(calls, "error")
    /\ UNCHANGED <<mode, eventVars, findVars, inputVars, scriptVars, projectVars, mainVars>>

CallWarn ==
    /\ mode = "result"
    /\ Len(calls) < MaxCalls
    /\ \E msg \in Messages : result' = AddWarn(result, msg)
    /\ calls' = Append(calls, "warn")
    /\ UNCHANGED <<mode, eventVars, findVars, inputVars, scriptVars, projectVars, mainVars>>

CallOk ==
    /\ mode = "result"
    /\ Len(calls) < MaxCalls
    /\ \E msg \in Messages : result' = AddOk(result, msg)
    /\ calls' = Append(calls, "ok")
    /\ UNCHANGED <<mode, eventVars, findVars, inputVars, scriptVars, projectVars, mainVars>>

CallInfo ==
    /\ mode = "result"
    /\ Len(calls) < MaxCalls
    /\ \E msg \in Messages : result' = AddInfo(result, msg)
    /\ calls' = Append(calls, "info")
    /\ UNCHANGED <<mode, eventVars, findVars, inputVars, scriptVars, projectVars, mainVars>>

(***************************************************************************)
(* Event Schema Registry                                                   *)
(***************************************************************************)
EventSpec(req, opt, m, b) ==
    [required |-> req, optional |-> opt, has_matcher |-> m, can_block |-> b]

EVENT_SCHEMAS ==
    "PreToolUse" :> EventSpec(<<"tool_name", "tool_input">>,
                              <<"tool_use_id", "session_id">>, TRUE, TRUE)
    @@ "PostToolUse" :> EventSpec(<<"tool_name", "tool_input", "tool_response">>,
                                  <<"tool_use_id", "session_id">>, TRUE, FALSE)
    @@ "UserPromptSubmit" :> EventSpec(<<"prompt">>, <<"session_id">>, FALSE, TRUE)
    @@ "Stop" :> EventSpec(<<"stop_hook_active">>,
                           <<"transcript_path", "session_id">>, FALSE, TRUE)
    @@ "SubagentStop" :> EventSpec(<<"stop_hook_active">>,
                                   <<"transcript_path", "session_id">>, FALSE, TRUE)
    @@ "SessionStart" :> EventSpec(<<"source">>, <<"session_id">>, TRUE, FALSE)
    @@ "SessionEnd" :> EventSpec(<<"reason">>, <<"session_id">>, FALSE, FALSE)
    @@ "PermissionRequest" :> EventSpec(<<"tool_name", "tool_input">>,
                                        <<"tool_use_id", "session_id">>, TRUE, TRUE)
    @@ "PreCompact" :> EventSpec(<<>>, <<"session_id">>, TRUE, FALSE)
    @@ "Notification" :> EventSpec(<<"message", "notification_type">>,
                                   <<"session_id">>, TRUE, FALSE)

EventNames == DOMAIN EVENT_SCHEMAS

PendingLookup == [status |-> "pending"]
KeyError == [status |-> "KeyError"]
Found(spec) == [status |-> "found", spec |-> spec]

\* EVENT_SCHEMAS.get(name, <first entry>): a lookup that never fails
LookupSchemaDefault(name) ==
    IF name \in EventNames THEN Found(EVENT_SCHEMAS[name])
    ELSE Found(EVENT_SCHEMAS["PreToolUse"])

\* "event in EVENT_SCHEMAS" followed by EVENT_SCHEMAS[event]
LookupSchema(name) ==
    IF name \in EventNames THEN Found(EVENT_SCHEMAS[name]) ELSE KeyError

\* names that are not events of the registry
BogusNames == {"Foo", "PreToolUseX", "stop"}

QueryNames == EventNames \cup BogusNames

LookupEvent ==
    /\ mode = "lookup"
    /\ lookup.status = "pending"
    /\ lookup' = LookupSchema(query)
    /\ UNCHANGED <<mode, resultVars, src, detected, query, findVars, inputVars, scriptVars, projectVars, mainVars>>

(***************************************************************************)
(* Event inference                                                         *)
(***************************************************************************)
\* the literals detect_hook_event searches the source for
QPrompt == "\"prompt\""
QSource == "\"source\""
QReason == "\"reason\""

Needles == {"stop_hook_active", "tool_response", QPrompt, "prompt", "tool_name",
            "notification_type", QSource, "startup", QReason}

\* a text that holds "prompt" in quotes holds prompt
SubstringClosed(S) == QPrompt \in S => "prompt" \in S

Has(content, needle) == needle \in content.signals

\* re.search(r'Event:\s*(\w+)', content): the first marker of the source
FirstMarker(content) ==
    IF content.markers = <<>> THEN None ELSE content.markers[1]

DetectToolNameFirst(content) ==
    LET m == FirstMarker(content) IN
    IF m # None /\ m \in EventNames THEN m
    ELSE IF Has(content, "tool_name") THEN "PreToolUse"
    ELSE IF Has(content, "stop_hook_active") THEN "Stop"
    ELSE IF Has(content, "tool_response") THEN "PostToolUse"
    ELSE IF Has(content, QPrompt) \/ Has(content, "prompt") THEN "UserPromptSubmit"
    ELSE IF Has(content, "notification_type") THEN "Notification"
    ELSE IF Has(content, QSource) /\ Has(content, "startup") THEN "SessionStart"
    ELSE IF Has(content, QReason) THEN "SessionEnd"
    ELSE None

DetectHeuristicsFirst(content) ==
    LET m == FirstMarker(content) IN
    IF Has(content, "stop_hook_active") THEN "Stop"
    ELSE IF Has(content, "tool_response") THEN "PostToolUse"
    ELSE IF (Has(content, QPrompt) \/ Has(content, "prompt"))
            /\ ~Has(content, "tool_name") THEN "UserPromptSubmit"
    ELSE IF Has(content, "notification_type") THEN "Notification"
    ELSE IF Has(content, QSource) /\ Has(content, "startup") THEN "SessionStart"
    ELSE IF Has(content, QReason) /\ ~Has(content, "tool_name") THEN "SessionEnd"
    ELSE IF Has(content, "tool_name") THEN "PreToolUse"
    ELSE IF m # None /\ m \in EventNames THEN m
    ELSE None

DetectHookEvent(content) ==
    LET m == FirstMarker(content) IN
    IF m # None /\ m \in EventNames THEN m
    ELSE IF Has(content, "stop_hook_active") THEN "Stop"
    ELSE IF Has(content, "tool_response") THEN "PostToolUse"
    ELSE IF (Has(content, QPrompt) \/ Has(content, "prompt"))
            /\ ~Has(content, "tool_name") THEN "UserPromptSubmit"
    ELSE IF Has(content, "notification_type") THEN "Notification"
    ELSE IF Has(content, QSource) /\ Has(content, "startup") THEN "SessionStart"
    ELSE IF Has(content, QReason) /\ ~Has(content, "tool_name") THEN "SessionEnd"
    ELSE IF Has(content, "tool_name") THEN "PreToolUse"
    ELSE None

MaxMarkers == 2
MaxMarkedSignals == 2

MarkerNames == EventNames \cup {"Foo"}

MarkerSeqs == UNION {[1..n -> MarkerNames] : n \in 0..MaxMarkers}

HasValidMarker(content) ==
    \E i \in 1..Len(content.markers) : content.markers[i] \in EventNames

\* every set of needles for a source without a registered marker name; up to
\* MaxMarkedSignals needles beside a registered one
Sources ==
    {c \in [markers : MarkerSeqs, signals : SUBSET Needles] :
        /\ SubstringClosed(c.signals)
        /\ HasValidMarker(c) => Cardinality(c.signals) <= MaxMarkedSignals}

NoSource == [markers |-> <<>>, signals |-> {}]

DetectEvent ==
    /\ mode = "detect"
    /\ detected = Pending
    /\ detected' = DetectHookEvent(src)
    /\ UNCHANGED <<mode, resultVars, src, query, lookup, findVars, inputVars, scriptVars, projectVars, mainVars>>

(***************************************************************************)
(* Installation lookup: find_hook_in_settings                              *)
(*                                                                         *)
(* A string is a sequence of atoms.  DQ and SQ are the two quote           *)
(* characters, VAR is the text $CLAUDE_PROJECT_DIR, SP is whitespace, SL   *)
(* is the path separator; every other atom is a fragment of a name that    *)
(* holds none of these and no part of a hook file name.  Paths have no     *)
(* symbolic links and no "." or ".." components.                           *)
(***************************************************************************)
DQ == "\""
SQ == "'"
VAR == "$CLAUDE_PROJECT_DIR"
SP == " "
SL == "/"

ProjectDir == <<SL, "proj">>
OtherDir == <<SL, "other">>
HookFile == "hook.py"

RECURSIVE ReplaceAll(_, _, _)
\* str.replace(old, new): every occurrence, left to right, not overlapping
ReplaceAll(s, old, new) ==
    IF Len(s) < Len(old) THEN s
    ELSE IF SubSeq(s, 1, Len(old)) = old
         THEN new \o ReplaceAll(SubSeq(s, Len(old) + 1, Len(s)), old, new)
         ELSE <<s[1]>> \o ReplaceAll(Tail(s), old, new)

RECURSIVE SplitOn(_, _)
\* the non-empty pieces of s between the atoms of seps
SplitOn(s, seps) ==
    IF s = <<>> THEN <<>>
    ELSE IF s[1] \in seps THEN SplitOn(Tail(s), seps)
    ELSE LET stops == {i \in 1..Len(s) : s[i] \in seps}
             n == IF stops = {} THEN Len(s)
                  ELSE (CHOOSE i \in stops : \A j \in stops : i <= j) - 1
         IN <<SubSeq(s, 1, n)>> \o SplitOn(SubSeq(s, n + 1, Len(s)), seps)

Contains(s, atom) == \E i \in 1..Len(s) : s[i] = atom

EndsWith(s, atom) == s # <<>> /\ s[Len(s)] = atom

\* the assignment "expanded = str(project_dir)" in place of the last substitution
ExpandAssigns(command, project_dir) ==
    LET e1 == ReplaceAll(command, <<DQ, VAR, DQ>>, project_dir)
        e2 == ReplaceAll(e1, <<SQ, VAR, SQ>>, project_dir)
    IN IF Contains(e2, VAR) THEN project_dir ELSE e2

\* the three substitutions of the project-root placeholder
Expand(command, project_dir) ==
    LET e1 == ReplaceAll(command, <<DQ, VAR, DQ>>, project_dir)
        e2 == ReplaceAll(e1, <<SQ, VAR, SQ>>, project_dir)
    IN ReplaceAll(e2, <<VAR>>, project_dir)

\* expanded.replace('"', '').replace("'", '')
StripQuotes(s) == SelectSeq(s, LAMBDA a : a \notin {DQ, SQ})

\* Path(part).resolve(): the components of the absolute path
Resolve(part, dir) ==
    IF part # <<>> /\ part[1] = SL THEN SplitOn(part, {SL})
    ELSE SplitOn(dir, {SL}) \o SplitOn(part, {SL})

\* Path.name of a script path whose last atom is its file name
PathName(path) == path[Len(path)]

\* one part of the command: the resolved-path comparison, then the filename suffix
PartMatches(part, hook_script, dir) ==
    /\ Contains(part, PathName(hook_script))
    /\ \/ Resolve(part, dir) = Resolve(hook_script, dir)
       \/ EndsWith(part, PathName(hook_script))

\* whether a command registers the script
CommandMatches(command, hook_script, project_dir, dir) ==
    LET expanded == Expand(command, project_dir) IN
    /\ Contains(expanded, PathName(hook_script))
    /\ LET parts == SplitOn(StripQuotes(expanded), {SP})
       IN \E i \in 1..Len(parts) : PartMatches(parts[i], hook_script, dir)

ConfigMatcher(config) == IF config.has_matcher THEN config.matcher ELSE "*"

HookType(hook) == IF hook.type = "absent" THEN "command" ELSE hook.type

\* the (event, matcher, hook) triples of a hooks mapping, in iteration order
RECURSIVE HooksOfConfig(_, _, _)
HooksOfConfig(ev, config, j) ==
    IF j > Len(config.hooks) THEN <<>>
    ELSE <<[event |-> ev, matcher |-> ConfigMatcher(config), hook |-> config.hooks[j]]>>
         \o HooksOfConfig(ev, config, j + 1)

RECURSIVE HooksOfEvent(_, _)
HooksOfEvent(entry, i) ==
    IF i > Len(entry.configs) THEN <<>>
    ELSE HooksOfConfig(entry.event, entry.configs[i], 1) \o HooksOfEvent(entry, i + 1)

RECURSIVE HooksOfDoc(_, _)
HooksOfDoc(hooks_config, k) ==
    IF k > Len(hooks_config) THEN <<>>
    ELSE HooksOfEvent(hooks_config[k], 1) \o HooksOfDoc(hooks_config, k + 1)

Registers(t, hook_script, project_dir, dir) ==
    /\ HookType(t.hook) = "command"
    /\ t.hook.command # <<>>
    /\ CommandMatches(t.hook.command, hook_script, project_dir, dir)

NotFound == [found |-> FALSE, events |-> <<>>, matchers |-> <<>>]

\* a settings file: absent, unreadable (read_text raises an OSError), not text
\* (read_text raises a UnicodeDecodeError), not JSON, or a parsed hooks mapping
MissingFile == [state |-> "missing", hooks |-> <<>>]
UnreadableFile == [state |-> "unreadable", hooks |-> <<>>]
UndecodableFile == [state |-> "undecodable", hooks |-> <<>>]
MalformedFile == [state |-> "malformed", hooks |-> <<>>]
ParsedFile(hooks_config) == [state |-> "parsed", hooks |-> hooks_config]

\* "except (json.JSONDecodeError, OSError)" lets a UnicodeDecodeError through
FindRaises(settings) == settings.state = "undecodable"

\* the result of find_hook_in_settings when it returns
FindHookInSettings(settings, hook_script, project_dir, dir) ==
    IF settings.state \in {"missing", "undecodable"} THEN NotFound
    ELSE IF settings.state \in {"unreadable", "malformed"} THEN NotFound
    ELSE IF settings.hooks = <<>> THEN NotFound
    ELSE LET all == HooksOfDoc(settings.hooks, 1)
             hits == SelectSeq(all, LAMBDA t : Registers(t, hook_script, project_dir, dir))
             named == SelectSeq(hits, LAMBDA t : t.matcher # "*")
         IN [found |-> hits # <<>>,
             events |-> [i \in 1..Len(hits) |-> hits[i].event],
             matchers |-> [i \in 1..Len(named) |-> named[i].matcher]]

(***************************************************************************)
(* The commands searched: a prefix, the placeholder in one of its forms    *)
(* (or none), and the rest of the command.                                 *)
(***************************************************************************)
MaxRest == 3

Placeholder(form) ==
    CASE form = "double" -> <<DQ, VAR, DQ>>
      [] form = "single" -> <<SQ, VAR, SQ>>
      [] form = "bare" -> <<VAR>>
      [] OTHER -> <<>>

Forms == {"double", "single", "bare", "absent"}

Prefixes == {<<>>, <<"python3", SP>>, <<DQ>>, <<SQ>>, <<"other", SL>>}

RestAtoms == {SL, HookFile, "my-", ".bak", SP, DQ}

Rests == UNION {[1..n -> RestAtoms] : n \in 0..MaxRest}

Command(c) == c.prefix \o Placeholder(c.form) \o c.rest

Commands == [prefix : Prefixes, form : Forms, rest : Rests, matcher : {"*", "Write"}]

NoCommand == [prefix |-> <<>>, form |-> "absent", rest |-> <<>>, matcher |-> "*"]

\* the settings document that holds one command hook under PreToolUse
SettingsWith(c) ==
    ParsedFile(<< [event |-> "PreToolUse",
                   configs |-> << [has_matcher |-> c.matcher # "*",
                                   matcher |-> c.matcher,
                                   hooks |-> << [type |-> "command",
                                                 command |-> Command(c)] >>] >>] >>)

FindScript == ProjectDir \o <<SL, HookFile>>

PendingFind == [found |-> FALSE, events |-> <<>>, matchers |-> <<>>, done |-> FALSE]

FindHook ==
    /\ mode = "find"
    /\ ~located.done
    /\ located' = [done |-> TRUE] @@
                  FindHookInSettings(SettingsWith(cmd), FindScript, ProjectDir, cwd)
    /\ UNCHANGED <<mode, resultVars, eventVars, cmd, cwd, inputVars, scriptVars, projectVars, mainVars>>

(***************************************************************************)
(* A hook script file.  Its source is the kind of its first line, the      *)
(* names after its "Event:" markers, and the literals it holds among those *)
(* the validator searches for.                                             *)
(***************************************************************************)
\* first lines: whether the line starts with #! and which interpreter words it holds
NoShebangLine == [hashbang |-> FALSE, words |-> {}]
PythonLine == [hashbang |-> TRUE, words |-> {"python"}]
BashLine == [hashbang |-> TRUE, words |-> {"bash", "sh"}]
ShLine == [hashbang |-> TRUE, words |-> {"sh"}]
NodeLine == [hashbang |-> TRUE, words |-> {}]

FirstLines == {NoShebangLine, PythonLine, BashLine, ShLine, NodeLine}

PyIdioms == {"json.load(sys.stdin)", "sys.exit(0)", "sys.exit(1)", "sys.exit(2)"}
ShIdioms == {"cat", "exit 0", "exit 1", "exit 2"}

\* "notification_type" holds the letters of "cat"
HasIdiom(content, literal) ==
    \/ literal \in content.idioms
    \/ literal = "cat" /\ "notification_type" \in content.signals

FileName(f) == f.stem \o f.suffix

HooksDir == ProjectDir \o <<SL, "hooks">>

ScriptPath(f) == HooksDir \o <<SL, FileName(f)>>

(***************************************************************************)
(* validate_hook_script, one action per numbered step                      *)
(***************************************************************************)
NoInterp == [is_python |-> FALSE, is_bash |-> FALSE]

\* steps 1 to 3: the file exists, is executable, can be read
FileChecks(r, f) ==
    IF ~f.exists THEN AddError(r, "Script not found")
    ELSE LET r1 == AddOk(r, "Script exists")
             r2 == IF ~f.executable THEN AddError(r1, "Script is not executable")
                   ELSE AddOk(r1, "Script is executable")
         IN IF ~f.readable THEN AddError(r2, "Cannot read script") ELSE r2

CheckFile ==
    /\ pc = "file"
    /\ result' = FileChecks(result, script)
    /\ pc' = IF script.exists /\ script.readable THEN "shebang" ELSE "done"
    /\ UNCHANGED <<mode, calls, eventVars, findVars, inputVars, interp, event, probes,
                   projectVars, mainVars>>

\* step 4 with the interpreter guessed from the extension whenever the shebang
\* names none
InterpFromExtension(f) ==
    LET line == f.content.firstline IN
    IF line.hashbang /\ "python" \in line.words THEN [is_python |-> TRUE, is_bash |-> FALSE]
    ELSE IF line.hashbang /\ ("bash" \in line.words \/ "sh" \in line.words)
    THEN [is_python |-> FALSE, is_bash |-> TRUE]
    ELSE [is_python |-> f.suffix = ".py",
          is_bash |-> f.suffix # ".py" /\ f.suffix = ".sh"]

\* step 4: is_python / is_bash
InterpOf(f) ==
    LET line == f.content.firstline IN
    IF ~line.hashbang THEN NoInterp
    ELSE IF "python" \in line.words THEN [is_python |-> TRUE, is_bash |-> FALSE]
    ELSE IF "bash" \in line.words \/ "sh" \in line.words
    THEN [is_python |-> FALSE, is_bash |-> TRUE]
    ELSE [is_python |-> f.suffix = ".py",
          is_bash |-> f.suffix # ".py" /\ f.suffix = ".sh"]

\* step 4: the line the shebang check reports
ShebangCheck(r, f) ==
    LET line == f.content.firstline IN
    IF ~line.hashbang THEN AddError(r, "Missing shebang")
    ELSE IF "python" \in line.words THEN AddOk(r, "Valid Python shebang")
    ELSE IF "bash" \in line.words \/ "sh" \in line.words
    THEN AddOk(r, "Valid Bash shebang")
    ELSE AddWarn(r, "Unusual shebang")

CheckShebang ==
    /\ pc = "shebang"
    /\ result' = ShebangCheck(result, script)
    /\ interp' = InterpOf(script)
    /\ pc' = "syntax"
    /\ UNCHANGED <<mode, calls, eventVars, findVars, inputVars, event, probes, projectVars, mainVars>>

\* step 5: ast.parse, or bash -n with a 5 second timeout
SyntaxCheck(r, f, ip) ==
    IF ip.is_python
    THEN IF f.syntax = "error" THEN AddError(r, "Python syntax error")
         ELSE AddOk(r, "Python syntax valid")
    ELSE IF ip.is_bash
    THEN CASE f.syntax = "error" -> AddError(r, "Bash syntax error")
           [] f.syntax = "timeout" -> AddWarn(r, "Bash syntax check timed out")
           [] f.syntax = "nobash" -> AddWarn(r, "Cannot check bash syntax")
           [] OTHER -> AddOk(r, "Bash syntax valid")
    ELSE r

\* "return result" after the syntax error of either interpreter
SyntaxReturnsBoth(f, ip) == (ip.is_python \/ ip.is_bash) /\ f.syntax = "error"

\* "return result": only a Python syntax error ends the validation here
SyntaxReturns(f, ip) == ip.is_python /\ f.syntax = "error"

CheckSyntax ==
    /\ pc = "syntax"
    /\ result' = SyntaxCheck(result, script, interp)
    /\ pc' = IF SyntaxReturns(script, interp) THEN "done" ELSE "stdin"
    /\ UNCHANGED <<mode, calls, eventVars, findVars, inputVars, interp, event, probes,
                   projectVars, mainVars>>

\* step 6: the stdin idioms
InputCheck(r, f, ip) ==
    IF ip.is_python
    THEN IF HasIdiom(f.content, "json.load(sys.stdin)") \/ HasIdiom(f.content, "json.loads")
         THEN AddOk(r, "Handles JSON input from stdin")
         ELSE AddWarn(r, "No json.load(sys.stdin) found")
    ELSE IF ip.is_bash
    THEN IF \/ HasIdiom(f.content, "cat")
            \/ HasIdiom(f.content, "INPUT=$(")
            \/ HasIdiom(f.content, "read")
         THEN AddOk(r, "Reads input from stdin")
         ELSE AddWarn(r, "May not read input from stdin")
    ELSE r

CheckInput ==
    /\ pc = "stdin"
    /\ result' = InputCheck(result, script, interp)
    /\ pc' = "event"
    /\ UNCHANGED <<mode, calls, eventVars, findVars, inputVars, interp, event, probes,
                   projectVars, mainVars>>

\* step 7: event_hint or detect_hook_event(script_path, content)
EventOf(hint, content) ==
    IF hint # None /\ hint # "" THEN hint ELSE DetectHookEvent(content)

\* step 7 without the reentry-guard check
EventCheckNoGuard(r, ev, content) ==
    IF ev # None THEN AddOk(r, "Detected event type")
    ELSE AddWarn(r, "Could not detect event type")

\* step 7: the event line and, for Stop and SubagentStop, the reentry guard
EventCheck(r, ev, content) ==
    IF ev # None
    THEN LET r1 == AddOk(r, "Detected event type") IN
         IF ev \in {"Stop", "SubagentStop"}
         THEN IF ~Has(content, "stop_hook_active")
              THEN AddError(r1, "Stop hook missing stop_hook_active check")
              ELSE AddOk(r1, "Has stop_hook_active check")
         ELSE r1
    ELSE AddWarn(r, "Could not detect event type")

CheckEvent ==
    /\ pc = "event"
    /\ event' = EventOf(event_hint, script.content)
    /\ result' = EventCheck(result, event', script.content)
    /\ pc' = "exitcodes"
    /\ UNCHANGED <<mode, calls, eventVars, findVars, inputVars, interp, probes, projectVars, mainVars>>

\* step 8: the exit-code idioms
ExitCodeCheck(r, f, ip) ==
    IF ip.is_python
    THEN LET r1 == IF HasIdiom(f.content, "sys.exit(2)")
                   THEN AddOk(r, "Uses exit(2) for blocking") ELSE r
             r2 == IF HasIdiom(f.content, "sys.exit(0)")
                   THEN AddOk(r1, "Uses exit(0) for success") ELSE r1
         IN IF HasIdiom(f.content, "sys.exit(1)")
            THEN AddWarn(r2, "Uses exit(1) - non-blocking error") ELSE r2
    ELSE IF ip.is_bash
    THEN LET r1 == IF HasIdiom(f.content, "exit 2")
                   THEN AddOk(r, "Uses exit 2 for blocking") ELSE r
         IN IF HasIdiom(f.content, "exit 0")
            THEN AddOk(r1, "Uses exit 0 for success") ELSE r1
    ELSE r

CheckExitCodes ==
    /\ pc = "exitcodes"
    /\ result' = ExitCodeCheck(result, script, interp)
    /\ pc' = "probe"
    /\ UNCHANGED <<mode, calls, eventVars, findVars, inputVars, interp, event, probes,
                   projectVars, mainVars>>

\* the sample payload of every event: its hook_event_name and its other keys
Payload(name, keys) == [hook_event_name |-> name, keys |-> keys]

TEST_INPUTS ==
    "PreToolUse" :> Payload("PreToolUse",
                            {"tool_name", "tool_input", "tool_use_id", "session_id"})
    @@ "PostToolUse" :> Payload("PostToolUse",
                                {"tool_name", "tool_input", "tool_response", "tool_use_id",
                                 "session_id"})
    @@ "UserPromptSubmit" :> Payload("UserPromptSubmit", {"prompt", "session_id"})
    @@ "Stop" :> Payload("Stop", {"stop_hook_active", "transcript_path", "session_id"})
    @@ "SubagentStop" :> Payload("SubagentStop",
                                 {"stop_hook_active", "transcript_path", "session_id"})
    @@ "SessionStart" :> Payload("SessionStart", {"source", "session_id"})
    @@ "SessionEnd" :> Payload("SessionEnd", {"reason", "session_id"})
    @@ "PermissionRequest" :> Payload("PermissionRequest",
                                      {"tool_name", "tool_input", "tool_use_id",
                                       "session_id"})
    @@ "PreCompact" :> Payload("PreCompact", {"session_id"})
    @@ "Notification" :> Payload("Notification",
                                 {"message", "notification_type", "session_id"})

\* the fallback payload for every event
TestInputUnknown(ev) == Payload("Unknown", {})

\* TEST_INPUTS.get(event, {"hook_event_name": "Unknown"})
TestInput(ev) ==
    IF ev \in DOMAIN TEST_INPUTS THEN TEST_INPUTS[ev] ELSE Payload("Unknown", {})

ShortOutput == 200

\* what the subprocess did: it exited with a code, standard output and standard
\* error; it outlived the timeout; or it could not be started
Exited(code, out, err) == [kind |-> "exit", code |-> code, stdout |-> out, stderr |-> err]
TimedOut == [kind |-> "timeout", code |-> 0,
             stdout |-> [text |-> "empty", len |-> 0], stderr |-> "empty"]
LaunchFailed == [kind |-> "oserror", code |-> 0,
                 stdout |-> [text |-> "empty", len |-> 0], stderr |-> "empty"]

\* proc.stdout.strip() / proc.stderr.strip() is not empty
NotBlank(out) == out.text \in {"json", "text"}

\* the output lines with text of any length reported
OutputCheckAnyLength(r, out) ==
    IF NotBlank(out)
    THEN IF out.text = "json" THEN AddOk(r, "Outputs valid JSON")
         ELSE AddOk(r, "Outputs text")
    ELSE r

\* the lines for the standard output of a probe that exited 0, 1 or 2
OutputCheck(r, out) ==
    IF NotBlank(out)
    THEN IF out.text = "json" THEN AddOk(r, "Outputs valid JSON")
         ELSE IF out.len < ShortOutput THEN AddOk(r, "Outputs text") ELSE r
    ELSE r

\* step 9 with exit code 0 as the only good one
ProbeCheckZeroOnly(r, p) ==
    CASE p.kind = "timeout" -> AddError(r, "Script timed out")
      [] p.kind = "oserror" -> AddError(r, "Runtime test failed")
      [] OTHER ->
          LET r1 == IF p.code = 0
                    THEN OutputCheck(AddOk(r, "Runtime test passed"), p.stdout)
                    ELSE AddError(r, "Unexpected exit code")
          IN IF p.stderr # "empty" /\ p.code # 2 THEN AddWarn(r1, "Stderr output") ELSE r1

\* step 9 with the expiry of the timeout left out of the report
ProbeCheckIgnoresTimeout(r, p) ==
    CASE p.kind = "timeout" -> r
      [] p.kind = "oserror" -> AddError(r, "Runtime test failed")
      [] OTHER ->
          LET r1 == IF p.code \in {0, 1, 2}
                    THEN OutputCheck(AddOk(r, "Runtime test passed"), p.stdout)
                    ELSE AddError(r, "Unexpected exit code")
          IN IF p.stderr # "empty" /\ p.code # 2 THEN AddWarn(r1, "Stderr output") ELSE r1

\* step 9, once the subprocess has ended
ProbeCheck(r, p) ==
    CASE p.kind = "timeout" -> AddError(r, "Script timed out")
      [] p.kind = "oserror" -> AddError(r, "Runtime test failed")
      [] OTHER ->
          LET r1 == IF p.code \in {0, 1, 2}
                    THEN OutputCheck(AddOk(r, "Runtime test passed"), p.stdout)
                    ELSE AddError(r, "Unexpected exit code")
          IN IF p.stderr # "empty" /\ p.code # 2 THEN AddWarn(r1, "Stderr output") ELSE r1

\* "if event and (is_python or is_bash)"
ProbeRuns(ev, ip) == ev # None /\ (ip.is_python \/ ip.is_bash)

RuntimeTest ==
    /\ pc = "probe"
    /\ IF ProbeRuns(event, interp)
       THEN /\ probes' = Append(probes, TestInput(event))
            /\ result' = ProbeCheck(result, script.probe)
       ELSE UNCHANGED <<probes, result>>
    /\ pc' = "install"
    /\ UNCHANGED <<mode, calls, eventVars, findVars, inputVars, interp, event, projectVars, mainVars>>

(***************************************************************************)
(* InstallationInfo and check_installation_status                          *)
(***************************************************************************)
IsInstalled(info) == info.project \/ info.local \/ info.user

ScopeProjectFirst(info) ==
    IF info.project \/ info.local THEN "Will run in THIS project only"
    ELSE IF info.user THEN "Will run in ALL projects"
    ELSE "Will NOT run"

ScopeDescription(info) ==
    IF info.user THEN "Will run in ALL projects"
    ELSE IF info.project \/ info.local THEN "Will run in THIS project only"
    ELSE "Will NOT run"

\* "if found: info.<level> = True; info.events.extend(events); ..."
Extend(info, lvl, hit) ==
    IF hit.found
    THEN [info EXCEPT ![lvl] = TRUE,
                      !.events = @ \o hit.events,
                      !.matchers = @ \o hit.matchers]
    ELSE info

\* every layer is looked up in the project-tier file
CheckInstallationProjectOnly(ls, hook_script, project_dir, dir) ==
    LET hit == FindHookInSettings(ls.project, hook_script, project_dir, dir)
        i0 == [NoInstallation EXCEPT !.present = TRUE]
        i1 == Extend(i0, "project", hit)
        i2 == Extend(i1, "local", hit)
    IN Extend(i2, "user", hit)

CheckInstallationStatus(ls, hook_script, project_dir, dir) ==
    LET i0 == [NoInstallation EXCEPT !.present = TRUE]
        i1 == Extend(i0, "project",
                     FindHookInSettings(ls.project, hook_script, project_dir, dir))
        i2 == Extend(i1, "local",
                     FindHookInSettings(ls.local, hook_script, project_dir, dir))
    IN Extend(i2, "user", FindHookInSettings(ls.user, hook_script, project_dir, dir))

\* step 10
\* one of the three lookups raises
InstallationRaises(ls) ==
    FindRaises(ls.project) \/ FindRaises(ls.local) \/ FindRaises(ls.user)

CheckInstallation ==
    /\ pc = "install"
    /\ IF InstallationRaises(layers)
       THEN pc' = "raised" /\ UNCHANGED result
       ELSE /\ result' = [result EXCEPT !.installation =
                             CheckInstallationStatus(layers, ScriptPath(script),
                                                     ProjectDir, cwd)]
            /\ pc' = "done"
    /\ UNCHANGED <<mode, calls, eventVars, findVars, inputVars, interp, event, probes,
                   projectVars, mainVars>>

(***************************************************************************)
(* The scripts and settings files validated                                *)
(***************************************************************************)
CleanExit == Exited(0, [text |-> "empty", len |-> 0], "empty")

ProbeStdouts ==
    {[text |-> "empty", len |-> 0], [text |-> "blank", len |-> 2],
     [text |-> "json", len |-> 20], [text |-> "json", len |-> 300],
     [text |-> "text", len |-> 199], [text |-> "text", len |-> 200]}

\* the exit statuses of the subprocess: the three of the hook protocol, a plain
\* failure, command not found, and death by a signal
ExitCodes == {0, 1, 2, 3, 127, -9}

ProbeOutcomes ==
    {Exited(c, o, e) : c \in ExitCodes, o \in ProbeStdouts, e \in {"empty", "text"}}
    \cup {TimedOut, LaunchFailed}

NoContent == [firstline |-> NoShebangLine, markers |-> <<>>, signals |-> {}, idioms |-> {}]

NoFile == [stem |-> "hook", suffix |-> ".py", exists |-> FALSE, executable |-> FALSE, readable |-> FALSE,
           content |-> NoContent, syntax |-> "ok", probe |-> CleanExit]

File(sfx, x, c, syn, p) ==
    [stem |-> "hook", suffix |-> sfx, exists |-> TRUE, executable |-> x,
     readable |-> TRUE, content |-> c, syntax |-> syn, probe |-> p]

Unreadable(sfx, x) == [NoFile EXCEPT !.suffix = sfx, !.exists = TRUE, !.executable = x]

Suffixes == {".py", ".sh", ""}

\* the outcomes of the syntax check that the script's interpreter can have
SyntaxOutcomes(f) ==
    IF InterpFromExtension(f).is_python THEN {"ok", "error"}
    ELSE IF InterpFromExtension(f).is_bash THEN {"ok", "error", "timeout", "nobash"}
    ELSE {"ok"}

\* scripts of every shape the static checks tell apart
StaticScripts ==
    {NoFile}
    \cup {Unreadable(".py", x) : x \in BOOLEAN}
    \cup {f \in {File(sfx, x, c, syn, CleanExit) :
                    sfx \in Suffixes, x \in BOOLEAN,
                    c \in [firstline : FirstLines,
                           markers : {<<>>, <<"Stop">>, <<"SubagentStop">>, <<"Foo">>},
                           signals : SUBSET {"stop_hook_active", "tool_name"},
                           idioms : {{}, PyIdioms, ShIdioms}],
                    syn \in {"ok", "error", "timeout", "nobash"}} :
            /\ f.syntax \in SyntaxOutcomes(f)
            /\ f.content.firstline \in {PythonLine} => f.suffix = ".py"
            /\ f.content.firstline \in {BashLine, ShLine} => f.suffix = ".sh"}

GoodPython(p) ==
    File(".py", TRUE,
         [firstline |-> PythonLine, markers |-> <<>>, signals |-> {"tool_name"},
          idioms |-> PyIdioms], "ok", p)

GoodBash(p) ==
    File(".sh", TRUE,
         [firstline |-> BashLine, markers |-> <<>>, signals |-> {"tool_name"},
          idioms |-> ShIdioms], "ok", p)

\* a Stop hook without the reentry guard
UnguardedStop ==
    File(".py", TRUE,
         [firstline |-> PythonLine, markers |-> <<"Stop">>, signals |-> {},
          idioms |-> PyIdioms], "ok", CleanExit)

\* the command hook "$CLAUDE_PROJECT_DIR/hooks/<name>" under PreToolUse for Write
HooksFor(name) ==
    << [event |-> "PreToolUse",
        configs |-> << [has_matcher |-> TRUE, matcher |-> "Write",
                        hooks |-> << [type |-> "command",
                                      command |-> <<VAR, SL, "hooks", SL, name>>] >>] >>] >>

SettingsFiles(names) ==
    {MissingFile, UnreadableFile, UndecodableFile, MalformedFile, ParsedFile(<<>>)}
    \cup {ParsedFile(HooksFor(n)) : n \in names}

NoSettings == [project |-> MissingFile, local |-> MissingFile, user |-> MissingFile]

Hints == {None, "Stop", "SubagentStop", "Bogus"}

(***************************************************************************)
(* validate_settings                                                       *)
(***************************************************************************)
\* the files of the run: the hooks directory of the project, or the script named
\* on the command line
FilesOnDisk ==
    IF mode # "script" THEN {files[i] : i \in DOMAIN files}
    ELSE IF script.exists THEN {script} ELSE {}

\* the files a command part names: Path(part).exists()
FilesAt(part) ==
    {f \in FilesOnDisk : Resolve(ScriptPath(f), cwd) = Resolve(part, cwd)}

\* part.endswith('.py') or part.endswith('.sh')
NamesScript(part) ==
    part # <<>> /\ part[Len(part)] \in {"hook.py", "hook.sh", "other.py", "notes.py"}

\* the two substitutions validate_settings makes, the bare form first
ExpandForSettings(command, project_dir) ==
    ReplaceAll(ReplaceAll(command, <<VAR>>, project_dir), <<DQ, VAR, DQ>>, project_dir)

\* the first part of the expanded command that names a script, or <<>>
ScriptPartOf(command, project_dir) ==
    LET parts == SplitOn(ExpandForSettings(command, project_dir), {SP})
        named == SelectSeq(parts, NamesScript)
    IN IF named = <<>> THEN <<>> ELSE named[1]

CommandHookCheck(r, hook, project_dir) ==
    IF hook.command = <<>> THEN AddError(r, "Empty command")
    ELSE LET part == ScriptPartOf(hook.command, project_dir) IN
         IF part = <<>> THEN AddWarn(r, "Could not identify script in command")
         ELSE IF FilesAt(part) = {} THEN AddError(r, "Script not found")
         ELSE LET r1 == AddOk(r, "Script exists") IN
              IF \E f \in FilesAt(part) : ~f.executable
              THEN AddError(r1, "Script not executable") ELSE r1

PromptHookCheck(r, hook, schema) ==
    IF hook.prompt = "" THEN AddError(r, "Empty prompt")
    ELSE LET r1 == AddOk(r, "Prompt-based hook configured") IN
         IF ~schema.can_block THEN AddWarn(r1, "Prompt hooks cannot block") ELSE r1

HookCheck(r, hook, schema, project_dir) ==
    IF HookType(hook) = "command" THEN CommandHookCheck(r, hook, project_dir)
    ELSE IF HookType(hook) = "prompt" THEN PromptHookCheck(r, hook, schema)
    ELSE r

RECURSIVE HookListCheck(_, _, _, _, _)
HookListCheck(r, hook_list, j, schema, project_dir) ==
    IF j > Len(hook_list) THEN r
    ELSE HookListCheck(HookCheck(r, hook_list[j], schema, project_dir),
                       hook_list, j + 1, schema, project_dir)

RECURSIVE ConfigsCheck(_, _, _, _, _)
ConfigsCheck(r, configs, i, schema, project_dir) ==
    IF i > Len(configs) THEN r
    ELSE LET r1 == IF configs[i].has_matcher /\ ~schema.has_matcher
                   THEN AddWarn(r, "Matcher specified but event doesn't support matchers")
                   ELSE r
         IN ConfigsCheck(HookListCheck(r1, configs[i].hooks, 1, schema, project_dir),
                         configs, i + 1, schema, project_dir)

RECURSIVE EventsCheck(_, _, _, _)
\* the loop over the event keys ending at the first unknown one
EventsCheckStops(r, hooks_config, k, project_dir) ==
    IF k > Len(hooks_config) THEN r
    ELSE IF hooks_config[k].event \notin EventNames
    THEN AddError(r, "Unknown event type")
    ELSE EventsCheck(ConfigsCheck(r, hooks_config[k].configs, 1,
                                  EVENT_SCHEMAS[hooks_config[k].event], project_dir),
                     hooks_config, k + 1, project_dir)

EventsCheck(r, hooks_config, k, project_dir) ==
    IF k > Len(hooks_config) THEN r
    ELSE IF hooks_config[k].event \notin EventNames
    THEN EventsCheck(AddError(r, "Unknown event type"), hooks_config, k + 1, project_dir)
    ELSE EventsCheck(ConfigsCheck(r, hooks_config[k].configs, 1,
                                  EVENT_SCHEMAS[hooks_config[k].event], project_dir),
                     hooks_config, k + 1, project_dir)

\* read_text raises an OSError or a UnicodeDecodeError: validate_settings catches
\* neither
SettingsRaises(settings) == settings.state \in {"unreadable", "undecodable"}

\* validate_settings with a missing file counted as an error
ValidateSettingsMissingFails(settings, project_dir) ==
    IF settings.state = "missing" THEN AddError(NewResult, "File not found")
    ELSE IF settings.state = "malformed" THEN AddError(NewResult, "Invalid JSON")
    ELSE LET r1 == AddOk(NewResult, "Valid JSON") IN
         IF settings.hooks = <<>> THEN AddInfo(r1, "No hooks configured")
         ELSE EventsCheck(AddOk(r1, "event type(s) configured"),
                          settings.hooks, 1, project_dir)

\* the report of a settings file that could be read
(***************************************************************************)
(* print_report: the verdict line                                          *)
(***************************************************************************)
\* the verdict without the not-installed state
ReportVerdictTwoWay(r) == IF Success(r) THEN "PASSED" ELSE "FAILED"

\* "if self.success: if self.installation and not self.installation.is_installed"
ReportVerdict(r) ==
    IF Success(r)
    THEN IF r.installation.present /\ ~IsInstalled(r.installation)
         THEN "SCRIPT VALID but NOT INSTALLED"
         ELSE "PASSED"
    ELSE "FAILED"

ValidateSettings(settings, project_dir) ==
    IF settings.state = "missing" THEN AddInfo(NewResult, "File not found")
    ELSE IF settings.state = "malformed" THEN AddError(NewResult, "Invalid JSON")
    ELSE LET r1 == AddOk(NewResult, "Valid JSON") IN
         IF settings.hooks = <<>> THEN AddInfo(r1, "No hooks configured")
         ELSE EventsCheck(AddOk(r1, "event type(s) configured"),
                          settings.hooks, 1, project_dir)

(***************************************************************************)
(* validate_project                                                        *)
(***************************************************************************)
LevelNames == <<"project", "local", "user">>

\* find_all_hooks: the files with suffix .py or .sh or a name that starts with hook
IsHook(f) == f.suffix \in {".py", ".sh"} \/ f.stem = "hook"

FindAllHooks(fs) == SelectSeq(fs, IsHook)

\* the verdict is that of the last report
LastReportDecides(passed, r) == Success(r)

\* "if not result.success: all_passed = False"
UpdateVerdict(passed, r) == IF ~Success(r) THEN FALSE ELSE passed

ValidateLayer ==
    /\ mode = "project"
    /\ pc = "settings"
    /\ level <= Len(LevelNames)
    /\ IF SettingsRaises(layers[LevelNames[level]])
       THEN /\ pc' = "raised"
            /\ UNCHANGED <<result, level, all_passed, reports>>
       ELSE /\ result' = ValidateSettings(layers[LevelNames[level]], ProjectDir)
            /\ reports' = Append(reports, result')
            /\ all_passed' = UpdateVerdict(all_passed, result')
            /\ level' = level + 1
            /\ pc' = IF level = Len(LevelNames) THEN "hooks" ELSE "settings"
    /\ UNCHANGED <<mode, calls, eventVars, findVars, inputVars, interp, event, probes,
                   files, hook_idx, verdict, mainVars>>

\* the loop over the hooks found: validate_hook_script starts on the next one
StartHook ==
    /\ mode \in {"project", "all"}
    /\ pc = "hooks"
    /\ hook_idx <= Len(FindAllHooks(files))
    /\ script' = FindAllHooks(files)[hook_idx]
    /\ result' = NewResult
    /\ interp' = NoInterp
    /\ event' = None
    /\ probes' = <<>>
    /\ pc' = "file"
    /\ UNCHANGED <<mode, calls, eventVars, findVars, event_hint, layers, projectVars, mainVars>>

\* validate_hook_script has returned: the report counts in the verdict
FinishHook ==
    /\ mode \in {"project", "all"}
    /\ pc = "done"
    /\ reports' = Append(reports, result)
    /\ all_passed' = UpdateVerdict(all_passed, result)
    /\ hook_idx' = hook_idx + 1
    /\ pc' = "hooks"
    /\ UNCHANGED <<mode, result, calls, eventVars, findVars, inputVars, interp, event,
                   probes, files, level, verdict, mainVars>>

\* "return all_passed"
ReturnVerdict ==
    /\ mode = "project"
    /\ pc = "hooks"
    /\ hook_idx > Len(FindAllHooks(files))
    /\ verdict' = IF all_passed THEN "True" ELSE "False"
    /\ pc' = "returned"
    /\ UNCHANGED <<mode, result, calls, eventVars, findVars, inputVars, interp, event,
                   probes, files, level, hook_idx, all_passed, reports, mainVars>>

MaxFiles == 2

NoShebangHook ==
    [stem |-> "hook", suffix |-> "", exists |-> TRUE, executable |-> TRUE,
     readable |-> TRUE,
     content |-> [firstline |-> NoShebangLine, markers |-> <<>>, signals |-> {},
                  idioms |-> {}],
     syntax |-> "ok", probe |-> CleanExit]

Notes == [NoShebangHook EXCEPT !.stem = "notes"]

ProjectFiles ==
    {GoodPython(CleanExit), UnguardedStop,
     GoodBash(CleanExit),
     [GoodBash(CleanExit) EXCEPT !.executable = FALSE],
     NoShebangHook, Notes}

\* the directory listings: up to MaxFiles files with different names
Listings ==
    {fs \in UNION {[1..n -> ProjectFiles] : n \in 0..MaxFiles} :
        \A i, j \in DOMAIN fs : i # j => FileName(fs[i]) # FileName(fs[j])}

\* a settings document with an event the registry does not have
UnknownEventHooks ==
    << [event |-> "Bogus",
        configs |-> << [has_matcher |-> FALSE, matcher |-> "*", hooks |-> <<>>] >>] >>

\* a prompt hook on Stop, with a matcher the event does not support
PromptHooks ==
    << [event |-> "Stop",
        configs |-> << [has_matcher |-> TRUE, matcher |-> "Write",
                        hooks |-> << [type |-> "prompt", prompt |-> "check"] >>] >>] >>

ProjectSettings ==
    {MissingFile, UnreadableFile, MalformedFile, ParsedFile(HooksFor("hook.py")),
     ParsedFile(HooksFor("hook.sh")), ParsedFile(UnknownEventHooks),
     ParsedFile(PromptHooks)}

(***************************************************************************)
(* validate_settings on one settings file                                  *)
(***************************************************************************)
\* the file given to validate_settings is that of the project level
ValidateSettingsFile ==
    /\ mode = "settings"
    /\ pc = "settings"
    /\ IF SettingsRaises(layers.project)
       THEN pc' = "raised" /\ UNCHANGED result
       ELSE /\ result' = ValidateSettings(layers.project, ProjectDir)
            /\ pc' = "checked"
    /\ UNCHANGED <<mode, calls, eventVars, findVars, inputVars, interp, event, probes,
                   projectVars, mainVars>>

MaxEvents == 2

\* a command hook with the given command
CommandHook(c) == [type |-> "command", command |-> c]

\* the hook lists of a config
HookLists ==
    { <<>>,
      << CommandHook(<<VAR, SL, "hooks", SL, "hook.py">>) >>,
      << CommandHook(<<DQ, VAR, DQ, SL, "hooks", SL, "hook.sh">>) >>,
      << CommandHook(<<DQ, VAR, DQ, SL, "hooks", SL, "hook.py">>) >>,
      << CommandHook(<<SQ, VAR, SQ, SL, "hooks", SL, "hook.py">>) >>,
      << CommandHook(<<>>), CommandHook(<<"echo">>) >>,
      << [type |-> "prompt", prompt |-> "check"], [type |-> "prompt", prompt |-> ""] >>,
      << [type |-> "agent", command |-> <<"echo">>] >> }

\* the config lists of an event key: one config, with or without a matcher
ConfigLists ==
    { << [has_matcher |-> b, matcher |-> IF b THEN "Write" ELSE "*", hooks |-> h] >> :
          b \in BOOLEAN, h \in HookLists }

SettingsEvents == {"PreToolUse", "Stop", "Notification", "Bogus", "Other"}

\* the hooks mappings: up to MaxEvents event keys, no key twice
HooksMappings ==
    {d \in UNION {[1..n -> [event : SettingsEvents, configs : ConfigLists]] :
                      n \in 0..MaxEvents} :
        \A i, j \in DOMAIN d : i # j => d[i].event # d[j].event}

\* the command line without any argument
NoArgs == [usage |-> FALSE, script |-> FALSE, all |-> FALSE, settings |-> FALSE,
           project |-> FALSE, event |-> None]

(***************************************************************************)
(* main                                                                    *)
(***************************************************************************)
\* the branch of main that a command line takes; parse_args itself ends the
\* process on a command line it cannot parse
Dispatch(a) ==
    IF a.usage THEN "usage"
    ELSE IF a.project \/ (~a.script /\ ~a.all /\ ~a.settings) THEN "project"
    ELSE IF a.settings THEN "settings"
    ELSE IF a.all THEN "all"
    ELSE IF a.script THEN "script"
    ELSE "help"

\* the reports of the --settings loop, up to the first file that cannot be read
RECURSIVE SettingsReports(_, _)
SettingsReports(ls, n) ==
    IF n > Len(LevelNames) \/ SettingsRaises(ls[LevelNames[n]]) THEN <<>>
    ELSE <<ValidateSettings(ls[LevelNames[n]], ProjectDir)>> \o SettingsReports(ls, n + 1)

\* "sys.exit(0 if ... else 1)"
ExitStatus(passed) == IF passed THEN 0 ELSE 1

\* parse_args and the branch taken; the --settings branch is run to its end
Main ==
    /\ mode = "main"
    /\ pc = "main"
    /\ mode' = Dispatch(args)
    /\ event_hint' = IF Dispatch(args) \in {"all", "script"} THEN args.event ELSE None
    /\ reports' = IF Dispatch(args) = "settings" THEN SettingsReports(layers, 1) ELSE reports
    /\ all_passed' = \A i \in DOMAIN reports' : Success(reports'[i])
    /\ pc' = CASE Dispatch(args) \in {"usage", "help"} -> "exited"
               [] Dispatch(args) = "project" -> "settings"
               [] Dispatch(args) = "settings" ->
                      IF Len(reports') < Len(LevelNames) THEN "raised" ELSE "exited"
               [] Dispatch(args) = "all" ->
                      IF FindAllHooks(files) = <<>> THEN "exited" ELSE "hooks"
               [] OTHER -> "file"
    /\ exit_code' = CASE Dispatch(args) \in {"usage", "help"} -> <<2>>
                      [] Dispatch(args) = "settings" /\ pc' = "exited" ->
                             <<ExitStatus(all_passed')>>
                      [] Dispatch(args) = "all" /\ pc' = "exited" -> <<0>>
                      [] OTHER -> <<>>
    /\ UNCHANGED <<result, calls, eventVars, findVars, script, layers, interp, event,
                   probes, files, level, hook_idx, verdict, args>>

\* the run of the branch has ended
RunEnded ==
    CASE mode = "project" -> pc = "returned"
      [] mode = "all" -> pc = "hooks" /\ hook_idx > Len(FindAllHooks(files))
      [] mode = "script" -> pc = "done"
      [] OTHER -> FALSE

\* what the branch found
RunPassed ==
    CASE mode = "project" -> verdict = "True"
      [] mode = "all" -> all_passed
      [] OTHER -> Success(result)

\* the sys.exit that ends the --project, --all and script branches
SysExit ==
    /\ RunEnded
    /\ exit_code' = <<ExitStatus(RunPassed)>>
    /\ pc' = "exited"
    /\ UNCHANGED <<mode, resultVars, eventVars, findVars, inputVars, interp, event, probes,
                   projectVars, args>>

\* an exception nothing catches ends the interpreter with status 1
Traceback ==
    /\ pc = "raised"
    /\ exit_code' = <<1>>
    /\ pc' = "exited"
    /\ UNCHANGED <<mode, resultVars, eventVars, findVars, inputVars, interp, event, probes,
                   projectVars, args>>

\* the command lines: one that argparse rejects, and every choice of the
\* positional argument and the flags
CommandLines ==
    {[NoArgs EXCEPT !.usage = TRUE]}
    \cup {a \in [usage : {FALSE}, script : BOOLEAN, all : BOOLEAN, settings : BOOLEAN,
                 project : BOOLEAN, event : {None, "Stop"}] :
             a.event # None => a.script \/ a.all}

(***************************************************************************)
(* scaffold-hook.py: the generator of new hook scripts                     *)
(***************************************************************************)
\* --lang choices
ScaffoldLangs == {"python", "bash"}

\* valid_events of main
ValidEvents ==
    {"PreToolUse", "PostToolUse", "PermissionRequest", "UserPromptSubmit", "Stop",
     "SubagentStop", "SessionStart", "SessionEnd", "PreCompact", "Notification"}

\* get_matcher_events()
MatcherEvents ==
    {"PreToolUse", "PostToolUse", "PermissionRequest", "SessionStart", "PreCompact",
     "Notification"}

\* a piece of generated text: the literals it holds among those the validator
\* searches for; no piece of the generator holds the text "Event:"
Text(signals, idioms) == [signals |-> signals, idioms |-> idioms]

\* "# Event-specific code goes here", and the default description
PlainText == Text({}, {})

\* EVENT_CODE: the snippets of the seven events that have one
EVENT_CODE ==
    [e \in {"PreToolUse", "PostToolUse", "UserPromptSubmit", "Stop", "SessionStart",
            "SessionEnd", "Notification"} |->
        CASE e = "PreToolUse" ->
               [python |-> Text({"tool_name"}, {"sys.exit(2)"}),
                bash |-> Text({"tool_name"}, {"json.load(sys.stdin)", "exit 2"})]
          [] e = "PostToolUse" ->
               [python |-> Text({"tool_name", "tool_response"}, {}),
                bash |-> Text({"tool_name"}, {})]
          [] e = "UserPromptSubmit" ->
               [python |-> Text({QPrompt, "prompt"}, {}),
                bash |-> Text({QPrompt, "prompt"}, {})]
          [] e = "Stop" ->
               [python |-> Text({"stop_hook_active", QReason}, {"sys.exit(0)", "read"}),
                bash |-> Text({"stop_hook_active", QReason}, {"exit 0"})]
          [] e = "SessionStart" ->
               [python |-> Text({QSource, "startup"}, {}),
                bash |-> Text({QSource, "startup"}, {})]
          [] e = "SessionEnd" ->
               [python |-> Text({QReason, "prompt"}, {}),
                bash |-> Text({QReason, "prompt"}, {})]
          [] OTHER ->
               [python |-> Text({"notification_type", "prompt"}, {"cat"}),
                bash |-> Text({"notification_type", "prompt"}, {"cat"})]]

\* EVENT_CODE.get(args.event, {}).get(args.lang, ""), the placeholder comment
\* for an event without a snippet
EventCode(ev, lang) ==
    IF ev \in DOMAIN EVENT_CODE THEN EVENT_CODE[ev][lang] ELSE PlainText

\* the two templates: their first line and the literals of their fixed text
PYTHON_TEMPLATE ==
    [firstline |-> PythonLine, idioms |-> {"json.load(sys.stdin)", "sys.exit(0)"}]

BASH_TEMPLATE ==
    [firstline |-> BashLine,
     idioms |-> {"json.load(sys.stdin)", "cat", "INPUT=$(", "exit 0"}]

\* template.format(...): the description comes before the one "Event:" line,
\* the snippet after it
Generate(ev, lang, description) ==
    LET template == IF lang = "python" THEN PYTHON_TEMPLATE ELSE BASH_TEMPLATE
        code == EventCode(ev, lang)
    IN [firstline |-> template.firstline,
        markers |-> <<ev>>,
        signals |-> description.signals \cup code.signals,
        idioms |-> description.idioms \cup template.idioms \cup code.idioms]

Ext(lang) == IF lang = "python" THEN ".py" ELSE ".sh"

\* the outcomes "bash -n" can have on the generated text, which is well formed
ScaffoldSyntax(lang) == IF lang = "python" THEN {"ok"} ELSE {"ok", "timeout", "nobash"}

\* the file written and made executable
Written(a, syn) ==
    [stem |-> a.name, suffix |-> Ext(a.lang), exists |-> TRUE, executable |-> TRUE,
     readable |-> TRUE, content |-> Generate(a.event, a.lang, a.description),
     syntax |-> syn, probe |-> CleanExit]

\* the command hook of the settings snippet printed last
Snippet(a) ==
    [prefix |-> <<IF a.lang = "python" THEN "python3" ELSE "bash", SP>>,
     form |-> "double",
     rest |-> <<SL, "hooks", SL, a.name \o Ext(a.lang)>>,
     matcher |-> IF a.event \in MatcherEvents THEN "Write|Edit" ELSE "*"]

\* main of scaffold-hook.py; the validator is then run on the file written
ScaffoldHook ==
    /\ mode = "scaffold"
    /\ pc = "scaffold"
    /\ IF args.event \notin ValidEvents \/ script.exists
       THEN /\ exit_code' = <<1>>
            /\ pc' = "refused"
            /\ UNCHANGED <<mode, script, cmd>>
       ELSE /\ \E syn \in ScaffoldSyntax(args.lang) : script' = Written(args, syn)
            /\ cmd' = Snippet(args)
            /\ exit_code' = <<0>>
            /\ mode' = "script"
            /\ pc' = "file"
    /\ UNCHANGED <<resultVars, eventVars, cwd, located, event_hint, layers, interp, event,
                   probes, projectVars, args>>

\* the command lines of the generator: every event it accepts and one it
\* rejects, both languages, two names, and a description that holds a literal
\* of the validator's heuristics
ScaffoldArgs ==
    [event : ValidEvents \cup {"Bogus"}, name : {"hook", "guard"}, lang : ScaffoldLangs,
     description : {PlainText, Text({"tool_name"}, {})}]

(***************************************************************************)
(* Specifications                                                          *)
(***************************************************************************)
IdleResult == result = NewResult /\ calls = <<>>
IdleEvent == src = NoSource /\ detected = Pending /\ query = None /\ lookup = PendingLookup

IdleFind == cmd = NoCommand /\ cwd = ProjectDir /\ located = PendingFind
IdleInputs == script = NoFile /\ event_hint = None /\ layers = NoSettings
IdleScript == pc = "idle" /\ interp = NoInterp /\ event = None /\ probes = <<>>
IdleProject ==
    /\ files = <<>>
    /\ level = 0
    /\ hook_idx = 0
    /\ all_passed = TRUE
    /\ reports = <<>>
    /\ verdict = None
IdleMain == args = NoArgs /\ exit_code = <<>>
IdleRun == IdleInputs /\ IdleScript /\ IdleProject /\ IdleMain

InitResult == mode = "result" /\ IdleResult /\ IdleEvent /\ IdleFind /\ IdleRun

InitFind ==
    /\ mode = "find"
    /\ IdleRun
    /\ IdleResult
    /\ IdleEvent
    /\ cmd \in Commands
    /\ cwd \in {ProjectDir, OtherDir}
    /\ located = PendingFind

InitEvent ==
    /\ IdleResult
    /\ IdleRun
    /\ IdleFind
    /\ detected = Pending
    /\ lookup = PendingLookup
    /\ \/ mode = "detect" /\ src \in Sources /\ query = None
       \/ mode = "lookup" /\ query \in QueryNames /\ src = NoSource

NextResult == CallError \/ CallWarn \/ CallOk \/ CallInfo

NextEvent == DetectEvent \/ LookupEvent

SpecResult == InitResult /\ [][NextResult]_vars

SpecEvent == InitEvent /\ [][NextEvent]_vars

SpecFind == InitFind /\ [][FindHook]_vars

\* one script given on the command line: the static checks over every shape of
\* script, the runtime test over every outcome of the subprocess and with every
\* event of the registry, and the installation lookup over every state of the
\* three settings files
ScriptInputs ==
    \/ /\ script \in StaticScripts
       /\ event_hint \in Hints
       /\ layers = NoSettings
       /\ cwd = ProjectDir
    \/ /\ script \in {GoodPython(p) : p \in ProbeOutcomes}
                      \cup {GoodBash(p) : p \in ProbeOutcomes}
       /\ event_hint \in {None, "Bogus"}
       /\ layers = NoSettings
       /\ cwd = ProjectDir
    \/ /\ script = GoodPython(CleanExit)
       /\ event_hint \in EventNames
       /\ layers = NoSettings
       /\ cwd = ProjectDir
    \/ /\ script \in {GoodPython(CleanExit), UnguardedStop}
       /\ event_hint = None
       /\ layers \in [project : SettingsFiles({FileName(script), "other.py"}),
                       local : SettingsFiles({FileName(script), "other.py"}),
                       user : SettingsFiles({FileName(script), "other.py"})]
       /\ cwd \in {ProjectDir, OtherDir}

Init ==
    /\ mode = "script"
    /\ IdleResult
    /\ IdleEvent
    /\ cmd = NoCommand
    /\ located = PendingFind
    /\ ScriptInputs
    /\ pc = "file"
    /\ interp = NoInterp
    /\ event = None
    /\ probes = <<>>
    /\ IdleProject
    /\ IdleMain

ValidateHookScript ==
    \/ CheckFile
    \/ CheckShebang
    \/ CheckSyntax
    \/ CheckInput
    \/ CheckEvent
    \/ CheckExitCodes
    \/ RuntimeTest
    \/ CheckInstallation

Next == ValidateHookScript

InitProject ==
    /\ mode = "project"
    /\ IdleResult
    /\ IdleEvent
    /\ IdleFind
    /\ script = NoFile
    /\ event_hint = None
    /\ layers \in [project : ProjectSettings, local : ProjectSettings,
                    user : {MissingFile, UnreadableFile, UndecodableFile,
                            ParsedFile(HooksFor("hook.py"))}]
    /\ pc = "settings"
    /\ interp = NoInterp
    /\ event = None
    /\ probes = <<>>
    /\ files \in Listings
    /\ level = 1
    /\ hook_idx = 1
    /\ all_passed = TRUE
    /\ reports = <<>>
    /\ verdict = None
    /\ IdleMain

ValidateProject == ValidateLayer \/ StartHook \/ FinishHook \/ ReturnVerdict

NextProject == ValidateProject \/ ValidateHookScript

SpecProject == InitProject /\ [][NextProject]_vars

InitSettings ==
    /\ mode = "settings"
    /\ IdleResult
    /\ IdleEvent
    /\ IdleFind
    /\ script = NoFile
    /\ event_hint = None
    /\ layers \in {[NoSettings EXCEPT !.project = f] :
                      f \in {MissingFile, UnreadableFile, UndecodableFile, MalformedFile}
                            \cup {ParsedFile(d) : d \in HooksMappings}}
    /\ pc = "settings"
    /\ interp = NoInterp
    /\ event = None
    /\ probes = <<>>
    /\ files \in {<<>>, <<GoodPython(CleanExit)>>,
                  <<[GoodBash(CleanExit) EXCEPT !.executable = FALSE]>>}
    /\ level = 1
    /\ hook_idx = 1
    /\ all_passed = TRUE
    /\ reports = <<>>
    /\ verdict = None
    /\ IdleMain

SpecSettings == InitSettings /\ [][ValidateSettingsFile]_vars

InitMain ==
    /\ mode = "main"
    /\ IdleResult
    /\ IdleEvent
    /\ IdleFind
    /\ args \in CommandLines
    /\ exit_code = <<>>
    /\ script \in IF args.script THEN {NoFile, GoodPython(CleanExit), UnguardedStop}
                  ELSE {NoFile}
    /\ event_hint = None
    /\ layers \in {[NoSettings EXCEPT !.project = f] :
                      f \in {MissingFile, UnreadableFile, UndecodableFile, MalformedFile,
                             ParsedFile(HooksFor("hook.py"))}}
    /\ pc = "main"
    /\ interp = NoInterp
    /\ event = None
    /\ probes = <<>>
    /\ files \in {<<>>, <<Notes>>, <<GoodPython(CleanExit)>>, <<UnguardedStop>>,
                  <<GoodPython(CleanExit), [GoodBash(CleanExit) EXCEPT !.executable = FALSE]>>}
    /\ level = 1
    /\ hook_idx = 1
    /\ all_passed = TRUE
    /\ reports = <<>>
    /\ verdict = None

NextMain == Main \/ ValidateProject \/ ValidateHookScript \/ SysExit \/ Traceback

SpecMain == InitMain /\ [][NextMain]_vars

\* validate_hook_script is sequential code: every step is taken once the one
\* before it has ended, and subprocess.run ends by itself or by its timeout
\* a hook is scaffolded and the file written is validated as a single script;
\* the output path is free or taken
InitScaffold ==
    /\ mode = "scaffold"
    /\ IdleResult
    /\ IdleEvent
    /\ IdleFind
    /\ args \in ScaffoldArgs
    /\ exit_code = <<>>
    /\ script \in {NoFile, [GoodPython(CleanExit) EXCEPT !.stem = args.name,
                                                         !.suffix = Ext(args.lang)]}
    /\ event_hint = None
    /\ layers = NoSettings
    /\ pc = "scaffold"
    /\ interp = NoInterp
    /\ event = None
    /\ probes = <<>>
    /\ IdleProject

NextScaffold == ScaffoldHook \/ ValidateHookScript

SpecScaffold == InitScaffold /\ [][NextScaffold]_vars

SpecLive == Init /\ [][Next]_vars /\ WF_vars(Next)

Spec == Init /\ [][Next]_vars

(***************************************************************************)
(* Claims                                                                  *)
(***************************************************************************)
Range(f) == {f[i] : i \in DOMAIN f}

\* C2: after any sequence of error/warn/ok/info calls, success is true if and
\* only if no error call was made; every error call adds one entry to errors and
\* warn, ok and info calls add none.
C2_SuccessIffNoErrorCall ==
    mode = "result" =>
        /\ Success(result) <=> "error" \notin Range(calls)
        /\ Len(result.errors) = Cardinality({i \in DOMAIN calls : calls[i] = "error"})

C2_Witness ==
    /\ mode = "result"
    /\ Len(calls) = MaxCalls
    /\ {"warn", "ok", "info"} \subseteq Range(calls)
    /\ Success(result)

\* the event names the specification lists for the registry
ListedEventNames ==
    {"PreToolUse", "PostToolUse", "UserPromptSubmit", "Stop", "SubagentStop",
     "SessionStart", "SessionEnd", "PermissionRequest", "PreCompact", "Notification"}

LookupDone == mode = "lookup" /\ lookup.status # "pending"

\* C4 as stated: every listed event name has a spec with at least one required
\* field, and the lookup of every other name fails.
C4_EveryEventHasARequiredField ==
    LookupDone =>
        IF query \in ListedEventNames
        THEN lookup.status = "found" /\ Len(lookup.spec.required) >= 1
        ELSE lookup = KeyError

\* C4 (amended): every listed event name is found; its spec has at least one
\* required field unless the event is PreCompact, whose required list is empty;
\* the lookup of every other name fails.
C4_EveryEventButPreCompactHasARequiredField ==
    LookupDone =>
        IF query \in ListedEventNames
        THEN /\ lookup.status = "found"
             /\ Len(lookup.spec.required) >= 1 <=> query # "PreCompact"
        ELSE lookup = KeyError

C4_Witness ==
    /\ LookupDone
    /\ query = "PreCompact"
    /\ lookup.status = "found"
    /\ lookup.spec.required = <<>>

DetectDone == mode = "detect" /\ detected # Pending

ValidMarkerNames(content) == Range(content.markers) \cap EventNames

\* C5 as stated: a source that holds an "Event: <name>" marker with a registered
\* name is inferred to be for the event of such a marker, whatever else it holds.
C5_AnyRegisteredMarkerWins ==
    DetectDone /\ ValidMarkerNames(src) # {} => detected \in ValidMarkerNames(src)

\* C5 (amended): when the first "Event: <name>" marker of the source names a
\* registered event, detect_hook_event returns that name whatever content
\* heuristics the source also matches.
C5_FirstRegisteredMarkerWins ==
    DetectDone /\ FirstMarker(src) \in EventNames => detected = FirstMarker(src)

C5_Witness ==
    /\ DetectDone
    /\ FirstMarker(src) = "SessionEnd"
    /\ "tool_response" \in src.signals
    /\ detected = "SessionEnd"

\* the priority list of the heuristics as the specification gives it: the event,
\* the literals that must be present and those that must be absent
Rule(e, present, absent) == [event |-> e, present |-> present, absent |-> absent]

PriorityList ==
    << Rule("Stop", {"stop_hook_active"}, {}),
       Rule("PostToolUse", {"tool_response"}, {}),
       Rule("UserPromptSubmit", {"prompt"}, {"tool_name"}),
       Rule("Notification", {"notification_type"}, {}),
       Rule("SessionStart", {QSource, "startup"}, {}),
       Rule("SessionEnd", {QReason}, {"tool_name"}),
       Rule("PreToolUse", {"tool_name"}, {}) >>

Matching(signals) ==
    {i \in DOMAIN PriorityList :
        /\ PriorityList[i].present \subseteq signals
        /\ PriorityList[i].absent \cap signals = {}}

FirstMatch(signals) ==
    IF Matching(signals) = {} THEN None
    ELSE PriorityList[CHOOSE i \in Matching(signals) :
                        \A j \in Matching(signals) : i <= j].event

\* C6: for a source without a registered marker name, detect_hook_event is the
\* first match of the priority list over the literals present, unset when none
\* matches, and never SubagentStop, PermissionRequest or PreCompact.
C6_HeuristicsFollowPriorityList ==
    DetectDone /\ ValidMarkerNames(src) = {} =>
        /\ detected = FirstMatch(src.signals)
        /\ detected \notin {"SubagentStop", "PermissionRequest", "PreCompact"}

C6_Witness ==
    /\ DetectDone
    /\ src.markers = <<"Foo">>
    /\ {"prompt", "tool_name", QReason, "startup"} \subseteq src.signals
    /\ "tool_response" \notin src.signals
    /\ "stop_hook_active" \notin src.signals
    /\ "notification_type" \notin src.signals
    /\ detected = "PreToolUse"

FindDone == mode = "find" /\ located.done

LocatedAs(r) ==
    /\ located.found = r.found
    /\ located.events = r.events
    /\ located.matchers = r.matchers

\* C7: for a fixed script and project directory, find_hook_in_settings returns
\* the same (found, events, matchers) whether the command writes the placeholder
\* double-quoted, single-quoted or bare, the rest of the command being the same.
C7_PlaceholderFormsAgree ==
    FindDone /\ cmd.form # "absent" =>
        \A f \in {"double", "single", "bare"} :
            LocatedAs(FindHookInSettings(SettingsWith([cmd EXCEPT !.form = f]),
                                         FindScript, ProjectDir, cwd))

C7_Witness ==
    /\ FindDone
    /\ cmd.form = "single"
    /\ cmd.prefix = <<"python3", SP>>
    /\ cmd.rest = <<SL, HookFile>>
    /\ cmd.matcher = "Write"
    /\ located.found
    /\ located.events = <<"PreToolUse">>
    /\ located.matchers = <<"Write">>

Count(seq, msg) == Cardinality({i \in DOMAIN seq : seq[i] = msg})

Reported(r, msg) == Count(r.errors, msg) + Count(r.warnings, msg) + Count(r.passed, msg)

\* validate_hook_script has returned a report that carries an InstallationRecord
Located == pc = "done" /\ result.installation.present

\* C1: for every combination of the three registration booleans, the scope is
\* "will run in ALL projects" iff user is true and "will NOT run" iff none of
\* the three is true, whether or not the script's report has errors.
C1_ScopeFollowsTheBooleans ==
    Located =>
        LET info == result.installation IN
        /\ ScopeDescription(info) = "Will run in ALL projects" <=> info.user
        /\ ScopeDescription(info) = "Will NOT run"
               <=> ~info.project /\ ~info.local /\ ~info.user
        /\ IsInstalled(info) <=> ScopeDescription(info) # "Will NOT run"

C1_Witness ==
    /\ Located
    /\ result.installation.user
    /\ result.installation.project
    /\ ~result.installation.local
    /\ ~Success(result)
    /\ ScopeDescription(result.installation) = "Will run in ALL projects"

\* the checks of steps 5, 6 and 9 have left a line in the report
SyntaxChecked(r) ==
    \E m \in {"Python syntax valid", "Python syntax error", "Bash syntax valid",
              "Bash syntax error", "Bash syntax check timed out",
              "Cannot check bash syntax"} : Reported(r, m) > 0

InputChecked(r) ==
    \E m \in {"Handles JSON input from stdin", "No json.load(sys.stdin) found",
              "Reads input from stdin", "May not read input from stdin"} :
        Reported(r, m) > 0

\* C8: an existing, readable script whose first line is not a shebang gets the
\* missing-shebang error once, and the syntax check, the stdin check and the
\* runtime probe still run with the interpreter guessed from the extension
\* (.py: python-like, .sh: shell-like).
C8_NoShebangFallsBackToExtension ==
    Located /\ ~script.content.firstline.hashbang =>
        /\ Count(result.errors, "Missing shebang") = 1
        /\ script.suffix = ".py" => interp.is_python
        /\ script.suffix = ".sh" => interp.is_bash
        /\ script.suffix \in {".py", ".sh"} =>
               /\ SyntaxChecked(result)
               /\ InputChecked(result)
               /\ event # None => Len(probes) = 1

StopEvents == {"Stop", "SubagentStop"}

LoopRisk == "Stop hook missing stop_hook_active check"

\* C9 as stated: every readable script whose event, given or inferred, is Stop
\* or SubagentStop and whose source has no stop_hook_active gets exactly one
\* infinite-loop error and fails; with the reference it gets none.
C9_EveryUnguardedStopHookIsFlagged ==
    pc = "done" /\ script.exists /\ script.readable
    /\ EventOf(event_hint, script.content) \in StopEvents =>
        IF Has(script.content, "stop_hook_active")
        THEN Count(result.errors, LoopRisk) = 0
        ELSE Count(result.errors, LoopRisk) = 1 /\ ~Success(result)

\* step 7 has run: the file was read and, if python-like, parsed
EventStepDone == pc \in {"exitcodes", "probe", "install"} \/ Located

\* C9 (amended): every script whose validation reaches the event step with the
\* event Stop or SubagentStop, given or inferred, gets exactly one
\* infinite-loop error and fails when its source has no stop_hook_active, and
\* gets no such error when it has.
C9_UnguardedStopHookIsFlaggedAtEventStep ==
    EventStepDone /\ event \in StopEvents =>
        IF Has(script.content, "stop_hook_active")
        THEN Count(result.errors, LoopRisk) = 0
        ELSE Count(result.errors, LoopRisk) = 1 /\ ~Success(result)

C9_Witness ==
    /\ Located
    /\ event_hint = "SubagentStop"
    /\ event = "SubagentStop"
    /\ ~Has(script.content, "stop_hook_active")
    /\ result.errors = <<LoopRisk>>

\* the settings file of a tier registers the script under validation
RegistersScript(settings) == settings = ParsedFile(HooksFor(FileName(script)))

\* C10: each of the three booleans is true iff that tier's own settings file
\* registers the script; a script registered only in the user tier has user
\* true, project and local false and the scope "runs in all projects".
C10_EachTierFromItsOwnFile ==
    Located =>
        LET info == result.installation IN
        /\ \A lvl \in {"project", "local", "user"} :
               info[lvl] <=> RegistersScript(layers[lvl])
        /\ RegistersScript(layers.user) /\ ~RegistersScript(layers.project)
           /\ ~RegistersScript(layers.local) =>
               /\ info.user /\ ~info.project /\ ~info.local
               /\ ScopeDescription(info) = "Will run in ALL projects"
               /\ info.events = <<"PreToolUse">>

\* registered in the user tier only, and the report passes
C10_Witness ==
    /\ Located
    /\ RegistersScript(layers.user)
    /\ layers.project = ParsedFile(HooksFor("other.py"))
    /\ layers.local = MissingFile
    /\ result.installation.user
    /\ ~result.installation.project
    /\ Success(result)

\* C3: validate_project returns true iff every one of the three settings-layer
\* reports and every report of a script found in the hooks directory has
\* success true; after a failing report the running verdict is false and stays
\* false.
C3_VerdictIsTheConjunction ==
    mode = "project" =>
        /\ all_passed <=> \A i \in DOMAIN reports : Len(reports[i].errors) = 0
        /\ pc = "returned" =>
               /\ verdict = "True" <=> \A i \in DOMAIN reports : Len(reports[i].errors) = 0
               /\ verdict \in {"True", "False"}
               /\ Len(reports) = Len(LevelNames) + Cardinality({i \in DOMAIN files :
                                                                  IsHook(files[i])})

\* a failing settings layer followed by two passing hook reports
C3_Witness ==
    /\ mode = "project"
    /\ pc = "returned"
    /\ verdict = "False"
    /\ Len(reports) = 5
    /\ ~Success(reports[1])
    /\ Success(reports[4])
    /\ Success(reports[5])

\* validate_settings has returned the report of a document with event keys
SettingsChecked ==
    /\ mode = "settings"
    /\ pc = "checked"
    /\ layers.project.state = "parsed"
    /\ layers.project.hooks # <<>>

IsKnownEntry(entry) == entry.event \in EventNames

IsNotUnknownEvent(msg) == msg # "Unknown event type"

\* C11: validate_settings reports one 'Unknown event type' error for each
\* event key that is not in the registry, and the findings for the other
\* keys are those of the document without the unknown keys.
C11_UnknownKeysAreReportedAlone ==
    SettingsChecked =>
        LET doc == layers.project.hooks
            known == SelectSeq(doc, IsKnownEntry)
            alone == EventsCheck(AddOk(AddOk(NewResult, "Valid JSON"),
                                       "event type(s) configured"),
                                 known, 1, ProjectDir)
        IN /\ Count(result.errors, "Unknown event type") = Len(doc) - Len(known)
           /\ SelectSeq(result.errors, IsNotUnknownEvent) = alone.errors
           /\ result.warnings = alone.warnings
           /\ result.passed = alone.passed

\* an unknown key before a key whose script is found and a finding is made
C11_Witness ==
    /\ SettingsChecked
    /\ Len(layers.project.hooks) = 2
    /\ layers.project.hooks[1].event = "Bogus"
    /\ layers.project.hooks[2].event = "PreToolUse"
    /\ result.errors = <<"Unknown event type">>
    /\ Reported(result, "Script exists") = 1

\* step 9 has run the subprocess and it has exited
ProbeFinished ==
    /\ mode = "script"
    /\ pc \in {"install", "done"}
    /\ Len(probes) = 1
    /\ script.probe.kind = "exit"

\* C12: when the probe's subprocess finishes, the report has the 'Runtime test
\* passed' line iff the exit code is 0, 1 or 2 and the 'Unexpected exit code'
\* error iff it is any other value; exit code 2 with empty standard output
\* gives the pass line and no JSON-output or text-output line.
C12_ExitCodesZeroOneTwoPass ==
    ProbeFinished =>
        LET code == script.probe.code IN
        /\ Count(result.passed, "Runtime test passed") = (IF code \in {0, 1, 2} THEN 1 ELSE 0)
        /\ Count(result.errors, "Unexpected exit code") = (IF code \in {0, 1, 2} THEN 0 ELSE 1)
        /\ code = 2 /\ script.probe.stdout.len = 0 =>
               /\ Reported(result, "Outputs valid JSON") = 0
               /\ Reported(result, "Outputs text") = 0

C12_Witness ==
    /\ ProbeFinished
    /\ pc = "done"
    /\ script.probe.code = 2
    /\ script.probe.stdout.len = 0
    /\ Count(result.passed, "Runtime test passed") = 1
    /\ Success(result)

\* the process has ended
ProcessExited == pc = "exited" /\ exit_code # <<>>

\* a target script that does not exist, or a command line that selects nothing
FatalOrUsage ==
    \/ args.usage
    \/ ~args.script /\ ~args.all /\ ~args.settings /\ ~args.project
    \/ Dispatch(args) = "script" /\ ~script.exists

\* C13: the process exits 0 when all validations passed, 1 when validation
\* errors were found, and 2 on a fatal or usage error such as a missing target
\* script or a command line that selects nothing to validate.
C13_ExitCodesAsDocumented ==
    ProcessExited =>
        IF FatalOrUsage THEN exit_code = <<2>> ELSE exit_code \in {<<0>>, <<1>>}

\* every line of a report
Lines(r) == Range(r.errors) \cup Range(r.warnings) \cup Range(r.passed)

\* a settings file that find_hook_in_settings could not parse
Unparsed(settings) == settings.state \in {"malformed", "unreadable"}

\* C14: every condition the validator detects appears as exactly one line of
\* the report: a probe's standard output that is not blank gets one output
\* line, a settings file that cannot be parsed during the installation lookup
\* gets a line, and no line is reported twice.
C14_EveryConditionHasOneLine ==
    /\ ProbeFinished /\ script.probe.code \in {0, 1, 2} /\ NotBlank(script.probe.stdout) =>
           Reported(result, "Outputs valid JSON") + Reported(result, "Outputs text") = 1
    /\ Located /\ (\E lvl \in {"project", "local", "user"} : Unparsed(layers[lvl])) =>
           \E msg \in Lines(result) : msg \in {"Invalid JSON", "Cannot read settings"}
    /\ mode = "script" => \A msg \in Lines(result) : Reported(result, msg) = 1

\* C15: a report without errors whose InstallationRecord has all three
\* booleans false gets the verdict 'SCRIPT VALID but NOT INSTALLED'; FAILED
\* is the verdict iff there are errors, PASSED in every other case, and the
\* not-installed state leaves success true.
C15_NotInstalledIsAThirdVerdict ==
    mode = "script" /\ pc = "done" =>
        LET info == result.installation
            unregistered == info.present /\ ~info.project /\ ~info.local /\ ~info.user
            v == ReportVerdict(result)
        IN /\ v = "FAILED" <=> result.errors # <<>>
           /\ v = "SCRIPT VALID but NOT INSTALLED" <=> result.errors = <<>> /\ unregistered
           /\ v = "PASSED" <=> result.errors = <<>> /\ ~unregistered
           /\ v = "SCRIPT VALID but NOT INSTALLED" => Success(result)

C15_Witness ==
    /\ Located
    /\ Success(result)
    /\ ~IsInstalled(result.installation)
    /\ result.warnings # <<>>
    /\ ReportVerdict(result) = "SCRIPT VALID but NOT INSTALLED"

\* the syntax check of step 5 has failed
SyntaxFailed == (interp.is_python \/ interp.is_bash) /\ script.syntax = "error"

ExitCodeLines ==
    {"Uses exit(2) for blocking", "Uses exit(0) for success",
     "Uses exit(1) - non-blocking error", "Uses exit 2 for blocking",
     "Uses exit 0 for success"}

\* C16: for both interpreter kinds, a failed syntax check puts the syntax
\* error in the report and none of the later checks is made: no stdin check,
\* no event inference, no exit-code check, and no probe is started.
C16_SyntaxErrorEndsTheChecks ==
    mode = "script" /\ pc = "done" /\ script.exists /\ script.readable /\ SyntaxFailed =>
        /\ Count(result.errors, "Python syntax error")
             + Count(result.errors, "Bash syntax error") = 1
        /\ ~InputChecked(result)
        /\ event = None
        /\ Reported(result, "Detected event type") = 0
        /\ Lines(result) \cap ExitCodeLines = {}
        /\ probes = <<>>

\* the script under the probe never exits by itself
ProbeHangs == mode = "script" /\ script.probe.kind = "timeout"

\* step 9 is about to start the subprocess
ProbeStarts == pc = "probe" /\ ProbeRuns(event, interp)

LayersSeen == {i \in DOMAIN reports : i <= Len(LevelNames)}

LayerFile(i) == layers[LevelNames[i]]

HooksFound == Cardinality({i \in DOMAIN files : IsHook(files[i])})

\* C18: the report of a missing settings file has no error and no warning and
\* one informational line; the report of a file with malformed JSON has
\* exactly one error; neither ends the run: the other layers and all the
\* scripts are still validated.
C18_MissingAndMalformedLayers ==
    mode = "project" =>
        /\ \A i \in LayersSeen :
               /\ LayerFile(i).state = "missing" =>
                      /\ reports[i].errors = <<>>
                      /\ reports[i].warnings = <<>>
                      /\ reports[i].passed = <<"File not found">>
               /\ LayerFile(i).state = "malformed" =>
                      /\ reports[i].errors = <<"Invalid JSON">>
                      /\ reports[i].warnings = <<>>
        /\ pc = "raised" => LayerFile(level).state \notin {"missing", "malformed"}
        /\ pc = "returned" => Len(reports) = Len(LevelNames) + HooksFound

\* a missing layer, then a malformed one, then a layer with hooks and two scripts
C18_Witness ==
    /\ mode = "project"
    /\ pc = "returned"
    /\ layers.project = MissingFile
    /\ layers.local = MalformedFile
    /\ layers.user.state = "parsed"
    /\ Len(reports) = 5
    /\ Success(reports[1])
    /\ reports[2].errors = <<"Invalid JSON">>
    /\ verdict = "False"

\* C19: a settings file that exists but cannot be read is an error of that
\* layer only: its report has an error, and the run goes on to the sibling
\* layers and the scripts and reaches a verdict.
C19_UnreadableLayerIsReported ==
    mode = "project" =>
        /\ pc # "raised"
        /\ \A i \in LayersSeen :
               LayerFile(i).state \in {"unreadable", "undecodable"} => ~Success(reports[i])
        /\ pc = "returned" => Len(reports) = Len(LevelNames) + HooksFound

\* C20: an event name that is not in the registry, given as the caller's
\* override for a script, results in a validation error (success false) and
\* never in a passed 'event type' check.
C20_UnknownEventIsAnError ==
    mode = "script" /\ EventStepDone /\ event_hint \notin EventNames \cup {None} =>
        /\ ~Success(result)
        /\ Reported(result, "Detected event type") = 0

\* the whitespace-separated tokens of the command under lookup, quotes removed
Tokens == SplitOn(StripQuotes(Expand(Command(cmd), ProjectDir)), {SP})

\* the token resolves to the absolute path of the script
ResolvesToScript(part) == Resolve(part, cwd) = Resolve(FindScript, cwd)

\* C21: the resolved-path comparison is authoritative: a token that resolves
\* to an absolute path other than the script's own (a script of the same name
\* in another directory) does not mark the script as registered.
C21_ResolvedPathIsAuthoritative ==
    FindDone /\ located.found =>
        \E i \in DOMAIN Tokens : ResolvesToScript(Tokens[i])

\* the final path component of the token is the file name of the script
NamesScriptFile(part) ==
    LET path == Resolve(part, cwd) IN
    path # <<>> /\ path[Len(path)] = <<PathName(FindScript)>>

\* C28: the script is reported as registered only when the final path
\* component of some token of the command equals the script's file name (a
\* longer file name that holds it does not count); found is true iff the
\* events list is not empty, with one event per matching command.
C28_OnlyTheFileNameRegisters ==
    FindDone =>
        /\ located.found => \E i \in DOMAIN Tokens : NamesScriptFile(Tokens[i])
        /\ located.found <=> located.events # <<>>
        /\ Len(located.events) <= 1

\* the errors and warnings of steps 1 to 8, and the warning for standard error
StaticFindings ==
    {"Script is not executable", "Missing shebang", "Unusual shebang", "Bash syntax error",
     "Bash syntax check timed out", "Cannot check bash syntax",
     "No json.load(sys.stdin) found", "May not read input from stdin", LoopRisk,
     "Could not detect event type", "Uses exit(1) - non-blocking error", "Stderr output"}

\* C22: for exit codes 0, 1 and 2, standard output that parses as JSON adds
\* one 'valid JSON' pass; output that does not parse adds one 'outputs text'
\* pass when shorter than 200 characters and nothing otherwise; empty or
\* blank output adds nothing; a parse failure adds no error and no warning.
C22_OutputLines ==
    ProbeFinished /\ script.probe.code \in {0, 1, 2} =>
        LET out == script.probe.stdout
            json == Count(result.passed, "Outputs valid JSON")
            text == Count(result.passed, "Outputs text")
        IN /\ out.text = "json" => json = 1 /\ text = 0
           /\ out.text = "text" /\ out.len < 200 => json = 0 /\ text = 1
           /\ out.text = "text" /\ out.len >= 200 => json = 0 /\ text = 0
           /\ out.text \in {"empty", "blank"} => json = 0 /\ text = 0
           /\ Range(result.errors) \cup Range(result.warnings) \subseteq StaticFindings
           /\ Count(result.warnings, "Stderr output")
                = (IF script.probe.stderr # "empty" /\ script.probe.code # 2 THEN 1 ELSE 0)

C22_Witness ==
    /\ ProbeFinished
    /\ pc = "done"
    /\ script.probe.code = 1
    /\ script.probe.stdout = [text |-> "text", len |-> 200]
    /\ Count(result.passed, "Runtime test passed") = 1
    /\ Count(result.passed, "Outputs text") = 0

\* step 8 has run
ExitCodeStepDone == mode = "script" /\ (pc \in {"probe", "install"} \/ Located)

\* the source uses the exit idiom of its interpreter with the given code
UsesExit(code) ==
    IF interp.is_python
    THEN HasIdiom(script.content, "sys.exit(" \o code \o ")")
    ELSE HasIdiom(script.content, "exit " \o code)

ExitCodeMessages(code) ==
    CASE code = "0" -> {"Uses exit(0) for success", "Uses exit 0 for success"}
      [] code = "2" -> {"Uses exit(2) for blocking", "Uses exit 2 for blocking"}
      [] OTHER -> {"Uses exit(1) - non-blocking error", "Uses exit 1 - non-blocking error"}

CountOf(seq, msgs) == Cardinality({i \in DOMAIN seq : seq[i] \in msgs})

\* C23: for a script of either interpreter kind, the exit-with-1 idiom is
\* surfaced as exactly one warning and the exit-with-2 and exit-with-0 idioms
\* as one pass each; none of the three is an error.
C23_ExitIdiomsAreSurfaced ==
    ExitCodeStepDone /\ (interp.is_python \/ interp.is_bash) =>
        /\ CountOf(result.warnings, ExitCodeMessages("1")) = (IF UsesExit("1") THEN 1 ELSE 0)
        /\ CountOf(result.passed, ExitCodeMessages("2")) = (IF UsesExit("2") THEN 1 ELSE 0)
        /\ CountOf(result.passed, ExitCodeMessages("0")) = (IF UsesExit("0") THEN 1 ELSE 0)
        /\ \A c \in {"0", "1", "2"} : CountOf(result.errors, ExitCodeMessages(c)) = 0

\* validate_hook_script returns before step 10
ReturnsEarly ==
    \/ ~script.exists
    \/ ~script.readable
    \/ interp.is_python /\ script.syntax = "error"

\* the errors that do not end the validation
LaterErrors ==
    {"Script is not executable", "Missing shebang", LoopRisk, "Unexpected exit code",
     "Script timed out", "Runtime test failed"}

MatchesSpec(payload, name) ==
    /\ payload.hook_event_name = name
    /\ Range(EVENT_SCHEMAS[name].required) \subseteq payload.keys
    /\ payload.keys \subseteq Range(EVENT_SCHEMAS[name].required)
                                \cup Range(EVENT_SCHEMAS[name].optional)

\* C25: every event name of the registry has a sample payload that holds every
\* required field of its spec, no key besides hook_event_name that the spec
\* does not list, and the event's own name; the fallback payload
\* {hook_event_name: 'Unknown'} is used only for a name outside the registry.
C25_PayloadsCoverTheRegistry ==
    /\ DOMAIN TEST_INPUTS = EventNames
    /\ \A name \in EventNames : MatchesSpec(TEST_INPUTS[name], name)
    /\ mode = "script" /\ Len(probes) = 1 =>
           IF event \in EventNames THEN MatchesSpec(probes[1], event)
           ELSE probes[1] = Payload("Unknown", {})

C25_Witness ==
    /\ Located
    /\ event = "Notification"
    /\ Len(probes) = 1
    /\ probes[1].keys = {"message", "notification_type", "session_id"}

\* the generator has written a file and the validator runs on it
Scaffolded == mode = "script" /\ exit_code = <<0>> /\ script.exists

InterpFor(lang) ==
    [is_python |-> lang = "python", is_bash |-> lang = "bash"]

\* C26: for every event the generator accepts and both languages, the
\* validator recognises the interpreter of the generated script from its
\* shebang, infers the event it was scaffolded for, and reports no
\* infinite-loop error; the generator's valid events are the registry's names
\* and its matcher events are the events whose spec has has_matcher.
C26_ScaffoldedHooksPassStaticChecks ==
    /\ ValidEvents = EventNames
    /\ MatcherEvents = {e \in EventNames : EVENT_SCHEMAS[e].has_matcher}
    /\ Scaffolded =>
        /\ pc \notin {"file", "shebang"} =>
              /\ interp = InterpFor(args.lang)
              /\ Reported(result, "Missing shebang") + Reported(result, "Unusual shebang") = 0
        /\ EventStepDone =>
              /\ event = args.event
              /\ Count(result.errors, LoopRisk) = 0
              /\ result.errors = <<>>

PlaceholderForms == {"double", "single", "bare"}

\* the settings file checked holds one command hook, under a registered event,
\* that refers to the one script on disk, an executable one, through the
\* project-root placeholder
RefersThroughPlaceholder ==
    /\ SettingsChecked
    /\ Len(layers.project.hooks) = 1
    /\ layers.project.hooks[1].event \in EventNames
    /\ Len(files) = 1
    /\ files[1].executable
    /\ \E form \in PlaceholderForms :
          layers.project.hooks[1].configs[1].hooks =
              << CommandHook(Placeholder(form)
                             \o <<SL, "hooks", SL, FileName(files[1])>>) >>

\* C27: for a command that refers to an existing executable script through the
\* project-root placeholder in any of its forms, validate_settings reports
\* "Script exists" and no "Script not found" exactly when installation lookup
\* resolves the same command to that script.
C27_SettingsAndLookupAgree ==
    RefersThroughPlaceholder =>
        ((Reported(result, "Script exists") = 1 /\ Count(result.errors, "Script not found") = 0)
         <=> FindHookInSettings(layers.project, ScriptPath(files[1]), ProjectDir, cwd).found)

====
